---- MODULE Spec2Model ----
(***************************************************************************)
(* Model of the asset-transfer chaincode (src/lib/assetTransfer.js): the   *)
(* AssetTransfer contract's transaction handlers over the world state      *)
(* reached through ctx.stub (getState / putState / deleteState /           *)
(* getStateByRange).                                                       *)
(*                                                                         *)
(* A JavaScript object is modelled with its key insertion order            *)
(* ([keys, val]); a JSON text is the sequence of its "key":literal         *)
(* members in textual order, so that encoding in insertion order and       *)
(* encoding with sorted keys are different texts.                          *)
(***************************************************************************)
EXTENDS Integers, Sequences, FiniteSets, TLC

(* ------------------------------ bounds -------------------------------- *)

\* how many of OwnerNames are used as owner arguments
NumOwners == 2

(* ------------------------- JavaScript values -------------------------- *)

Str(s) == [t |-> "string", s |-> s]

Num(n) == [t |-> "number", n |-> n]

\* an object literal { k1: v1, ... }: keys in insertion order
Obj(keys, val) == [keys |-> keys, val |-> val]

\* o[k] = v : an existing property keeps its position, a new one is appended
SetProp(o, k, v) ==
    IF k \in DOMAIN o.val
    THEN Obj(o.keys, [x \in DOMAIN o.val |-> IF x = k THEN v ELSE o.val[x]])
    ELSE Obj(Append(o.keys, k),
             [x \in (DOMAIN o.val) \cup {k} |-> IF x = k THEN v ELSE o.val[x]])

(* ----------------------------- JSON texts ----------------------------- *)

Quoted(s) == [lit |-> "quoted", s |-> s]

Digits(n) == [lit |-> "digits", n |-> n]

Member(k, l) == [key |-> k, lit |-> l]

\* the text {"k1":l1,"k2":l2,...}
ObjectText(ms) == [kind |-> "object", members |-> ms, raw |-> ""]

\* a string that is not a JSON document (the empty string included)
RawText(s) == [kind |-> "raw", members |-> << >>, raw |-> s]

\* JSON rendering of a scalar: strings quoted, numbers in decimal digits
Literal(v) == IF v.t = "string" THEN Quoted(v.s) ELSE Digits(v.n)

Value(l) == IF l.lit = "quoted" THEN Str(l.s) ELSE Num(l.n)

\* UTF-16 code units of the property names the contract uses
CodeUnits(k) ==
    CASE k = "docType"        -> <<100, 111, 99, 84, 121, 112, 101>>
      [] k = "game_name"      -> <<103, 97, 109, 101, 95, 110, 97, 109, 101>>
      [] k = "game_value"     -> <<103, 97, 109, 101, 95, 118, 97, 108, 117, 101>>
      [] k = "id"             -> <<105, 100>>
      [] k = "owner_name"     -> <<111, 119, 110, 101, 114, 95, 110, 97, 109, 101>>
      [] k = "owner_type"     -> <<111, 119, 110, 101, 114, 95, 116, 121, 112, 101>>
      [] k = "oldOwnerName"   -> <<111, 108, 100, 79, 119, 110, 101, 114, 78, 97, 109, 101>>
      [] k = "old_owner_name" -> <<111, 108, 100, 95, 111, 119, 110, 101, 114, 95, 110, 97, 109, 101>>

\* a sorts before b in code-unit order (the default Array.prototype.sort)
LexLess(a, b) ==
    \E i \in 1..(Len(a) + 1) :
        /\ \A j \in 1..(i - 1) : j <= Len(b) /\ a[j] = b[j]
        /\ i <= Len(b)
        /\ (i > Len(a) \/ a[i] < b[i])

PropertyNames ==
    {"docType", "game_name", "game_value", "id", "owner_name", "owner_type",
     "oldOwnerName", "old_owner_name"}

\* position of each property name in code-unit order
KeyRank ==
    [k \in PropertyNames |->
        Cardinality({j \in PropertyNames : LexLess(CodeUnits(j), CodeUnits(k))})]

KeyLess(k1, k2) == KeyRank[k1] < KeyRank[k2]

RECURSIVE InsertKey(_, _)
InsertKey(k, s) ==
    IF s = << >> THEN <<k>>
    ELSE IF KeyLess(k, Head(s)) THEN <<k>> \o s
    ELSE <<Head(s)>> \o InsertKey(k, Tail(s))

RECURSIVE SortKeys(_)
SortKeys(s) == IF s = << >> THEN << >> ELSE InsertKey(Head(s), SortKeys(Tail(s)))

\* sort-keys-recursive: a new object with the same properties, keys sorted
sortKeysRecursive(o) == Obj(SortKeys(o.keys), o.val)

\* the members of o rendered in the order of keys
Render(keys, val) == [i \in 1..Len(keys) |-> Member(keys[i], Literal(val[keys[i]]))]

\* JSON.stringify: members in the object's insertion order
JSON_stringify(o) == ObjectText(Render(o.keys, o.val))

\* json-stringify-deterministic: members in sorted key order
stringify(o) == ObjectText(Render(SortKeys(o.keys), o.val))

RECURSIVE ParseMembers(_, _)
ParseMembers(ms, o) ==
    IF ms = << >> THEN o
    ELSE ParseMembers(Tail(ms), SetProp(o, Head(ms).key, Value(Head(ms).lit)))

\* JSON.parse of an object text; a raw text makes it throw (IsJSON is FALSE)
IsJSON(text) == text.kind = "object"

JSON_parse(text) == ParseMembers(text.members, Obj(<< >>, << >>))

RECURSIVE NumDigits(_)
NumDigits(n) == IF n < 10 THEN 1 ELSE 1 + NumDigits(n \div 10)

LiteralLength(l) == IF l.lit = "quoted" THEN Len(l.s) + 2 ELSE NumDigits(l.n)

RECURSIVE MembersLength(_)
MembersLength(ms) ==
    IF ms = << >> THEN 0
    ELSE Len(Head(ms).key) + 3 + LiteralLength(Head(ms).lit)
         + (IF Len(ms) > 1 THEN 1 ELSE 0) + MembersLength(Tail(ms))

\* number of bytes of Buffer.from(text)
TextLength(text) ==
    IF text.kind = "raw" THEN Len(text.raw) ELSE 2 + MembersLength(text.members)

(* ------------------------------ buffers ------------------------------- *)

Undefined == [type |-> "undefined", text |-> RawText("")]

\* Buffer.from(text)
BufferFrom(text) == [type |-> "Buffer", text |-> text]

\* buf.toString()
BufferToString(buf) == buf.text

\* a JavaScript value used as a condition
Truthy(b) == b \notin {"false", "undefined"}

(* --------------------------- program data ----------------------------- *)

\* the seed records of InitLedger, in the order of the array literal
assets ==
    << Obj(<<"id", "game_name", "owner_name", "owner_type", "game_value">>,
           [id |-> Str("asset1"), game_name |-> Str("game1"), owner_name |-> Str("Tomoko"),
            owner_type |-> Str("player"), game_value |-> Num(300)]),
       Obj(<<"id", "game_name", "owner_name", "owner_type", "game_value">>,
           [id |-> Str("asset2"), game_name |-> Str("game2"), owner_name |-> Str("Brad"),
            owner_type |-> Str("player"), game_value |-> Num(400)]),
       Obj(<<"id", "game_name", "owner_name", "owner_type", "game_value">>,
           [id |-> Str("asset3"), game_name |-> Str("game3"), owner_name |-> Str("Jin Soo"),
            owner_type |-> Str("player"), game_value |-> Num(500)]),
       Obj(<<"id", "game_name", "owner_name", "owner_type", "game_value">>,
           [id |-> Str("asset4"), game_name |-> Str("game4"), owner_name |-> Str("Max"),
            owner_type |-> Str("player"), game_value |-> Num(600)]),
       Obj(<<"id", "game_name", "owner_name", "owner_type", "game_value">>,
           [id |-> Str("asset5"), game_name |-> Str("game5"), owner_name |-> Str("Adriana"),
            owner_type |-> Str("player"), game_value |-> Num(700)]),
       Obj(<<"id", "game_name", "owner_name", "owner_type", "game_value">>,
           [id |-> Str("asset6"), game_name |-> Str("game6"), owner_name |-> Str("Michel"),
            owner_type |-> Str("player"), game_value |-> Num(800)]) >>

SeedIds == {assets[i].val.id.s : i \in 1..Len(assets)}

(* --------------------------- handler inputs --------------------------- *)

\* the ids the handlers are invoked with: a key InitLedger seeds and a key it
\* never writes
ArgIds == {"asset1", "asset7"}

OwnerNames == <<"Robert", "Paul", "Me">>

Owners == {OwnerNames[i] : i \in 1..NumOwners}

GameNames == {"Chess"}

OwnerTypes == {"player"}

GameValues == {Num(100)}

\* every key of the world state, in the order a range scan yields them
ScanOrder == <<"asset1", "asset2", "asset3", "asset4", "asset5", "asset6", "asset7">>

Keys == {ScanOrder[i] : i \in 1..Len(ScanOrder)}

\* what getState resolves to for a key without an entry: nothing at all
\* (the stub of the tests) or an empty value
AbsentResults == {Undefined, BufferFrom(RawText(""))}

(* ---------------------------- world state ----------------------------- *)

VARIABLES store, last

vars == <<store, last>>

getState(st, key, absentAs) == IF st[key] = Undefined THEN absentAs ELSE st[key]

\* variant: every write lands under the first key of the namespace
putState_UnderFirstKey(st, key, value) == [st EXCEPT ![ScanOrder[1]] = value]

putState(st, key, value) == [st EXCEPT ![key] = value]

\* variant: a delete clears the whole namespace
deleteState_All(st, key) == [k \in DOMAIN st |-> Undefined]

deleteState(st, key) == [st EXCEPT ![key] = Undefined]

RECURSIVE ScanFrom(_, _)
ScanFrom(st, i) ==
    IF i > Len(ScanOrder) THEN << >>
    ELSE (IF st[ScanOrder[i]] = Undefined THEN << >> ELSE <<st[ScanOrder[i]]>>)
         \o ScanFrom(st, i + 1)

\* getStateByRange('', ''): the values of all entries, in key order
getStateByRange(st) == ScanFrom(st, 1)

(* ------------------------------ handlers ------------------------------ *)

NoText == [kind |-> "none", members |-> << >>, raw |-> ""]

\* what one invocation leaves behind: the world state, how it ended, what it
\* returned (a text, a JavaScript boolean-or-undefined, a list of texts) and
\* the store calls it made
Outcome(st, status, ret, exists, list, calls) ==
    [store |-> st, status |-> status, ret |-> ret, exists |-> exists,
     list |-> list, calls |-> calls]

\* variant: an empty value counts as an existing asset (length >= 0)
ExistsValue_EmptyCounts(assetJSON) ==
    IF assetJSON = Undefined THEN "undefined"
    ELSE IF TextLength(assetJSON.text) >= 0 THEN "true" ELSE "false"

\* assetJSON && assetJSON.length > 0
ExistsValue(assetJSON) ==
    IF assetJSON = Undefined THEN "undefined"
    ELSE IF TextLength(assetJSON.text) > 0 THEN "true" ELSE "false"

\* failAt is the index of the handler's store call that rejects (0: none)
AssetExists(st, id, failAt, absentAs) ==
    IF failAt = 1
    THEN Outcome(st, "StoreError", NoText, "none", << >>, <<"getState">>)
    ELSE Outcome(st, "ok", NoText, ExistsValue(getState(st, id, absentAs)),
                 << >>, <<"getState">>)

\* variant: values written with JSON.stringify, in insertion order
Encode_InsertionOrder(o) == JSON_stringify(o)

\* stringify(sortKeysRecursive(x)), the encoding of every value written
Encode(o) == stringify(sortKeysRecursive(o))

\* variant: a rejected write is remembered and the loop goes on
RECURSIVE InitLedgerFrom_GoesOn(_, _, _, _)
InitLedgerFrom_GoesOn(st, i, failAt, calls) ==
    IF i > Len(assets)
    THEN Outcome(st, IF failAt \in 1..Len(assets) THEN "StoreError" ELSE "ok",
                 NoText, "none", << >>, calls)
    ELSE IF failAt = i
         THEN InitLedgerFrom_GoesOn(st, i + 1, failAt, Append(calls, "putState"))
         ELSE LET asset == SetProp(assets[i], "docType", Str("asset"))
              IN  InitLedgerFrom_GoesOn(
                      putState(st, asset.val.id.s, BufferFrom(stringify(sortKeysRecursive(asset)))),
                      i + 1, failAt, Append(calls, "putState"))

\* variant: the seed records are written without the docType tag
RECURSIVE InitLedgerFrom_Untagged(_, _, _, _)
InitLedgerFrom_Untagged(st, i, failAt, calls) ==
    IF i > Len(assets) THEN Outcome(st, "ok", NoText, "none", << >>, calls)
    ELSE IF failAt = i
         THEN Outcome(st, "StoreError", NoText, "none", << >>, Append(calls, "putState"))
         ELSE InitLedgerFrom_Untagged(
                  putState(st, assets[i].val.id.s,
                           BufferFrom(stringify(sortKeysRecursive(assets[i])))),
                  i + 1, failAt, Append(calls, "putState"))

RECURSIVE InitLedgerFrom(_, _, _, _)
InitLedgerFrom(st, i, failAt, calls) ==
    IF i > Len(assets) THEN Outcome(st, "ok", NoText, "none", << >>, calls)
    ELSE IF failAt = i
         THEN Outcome(st, "StoreError", NoText, "none", << >>, Append(calls, "putState"))
         ELSE LET asset == SetProp(assets[i], "docType", Str("asset"))
              IN  InitLedgerFrom(putState(st, asset.val.id.s, BufferFrom(Encode(asset))),
                                 i + 1, failAt, Append(calls, "putState"))

InitLedger(st, failAt) == InitLedgerFrom(st, 1, failAt, << >>)

\* variant: no existence check, the record is written whatever is stored
CreateAsset_NoExistsCheck(st, id, gameName, ownerName, ownerType, gameValue, failAt, absentAs) ==
    LET asset == Obj(<<"id", "game_name", "owner_name", "owner_type", "game_value">>,
                     [id |-> Str(id), game_name |-> Str(gameName),
                      owner_name |-> Str(ownerName), owner_type |-> Str(ownerType),
                      game_value |-> gameValue])
    IN  IF failAt = 1
        THEN Outcome(st, "StoreError", NoText, "none", << >>, <<"putState">>)
        ELSE Outcome(putState(st, id, BufferFrom(stringify(sortKeysRecursive(asset)))), "ok",
                     JSON_stringify(asset), "none", << >>, <<"putState">>)

\* variant: the existence check is inverted (throws when the asset is absent)
CreateAsset_InvertedCheck(st, id, gameName, ownerName, ownerType, gameValue, failAt, absentAs) ==
    LET assetJSON == getState(st, id, absentAs)
        asset == Obj(<<"id", "game_name", "owner_name", "owner_type", "game_value">>,
                     [id |-> Str(id), game_name |-> Str(gameName),
                      owner_name |-> Str(ownerName), owner_type |-> Str(ownerType),
                      game_value |-> gameValue])
    IN  IF failAt = 1
        THEN Outcome(st, "StoreError", NoText, "none", << >>, <<"getState">>)
        ELSE IF assetJSON = Undefined \/ TextLength(assetJSON.text) = 0
        THEN Outcome(st, "AlreadyExists", NoText, "none", << >>, <<"getState">>)
        ELSE IF failAt = 2
        THEN Outcome(st, "StoreError", NoText, "none", << >>, <<"getState", "putState">>)
        ELSE Outcome(putState(st, id, BufferFrom(stringify(sortKeysRecursive(asset)))), "ok",
                     JSON_stringify(asset), "none", << >>, <<"getState", "putState">>)

\* variant: the text written to the store is also the text returned
CreateAsset_ReturnsStored(st, id, gameName, ownerName, ownerType, gameValue, failAt, absentAs) ==
    LET assetJSON == getState(st, id, absentAs)
        asset == Obj(<<"id", "game_name", "owner_name", "owner_type", "game_value">>,
                     [id |-> Str(id), game_name |-> Str(gameName),
                      owner_name |-> Str(ownerName), owner_type |-> Str(ownerType),
                      game_value |-> gameValue])
    IN  IF failAt = 1
        THEN Outcome(st, "StoreError", NoText, "none", << >>, <<"getState">>)
        ELSE IF assetJSON # Undefined /\ TextLength(assetJSON.text) > 0
        THEN Outcome(st, "AlreadyExists", NoText, "none", << >>, <<"getState">>)
        ELSE IF failAt = 2
        THEN Outcome(st, "StoreError", NoText, "none", << >>, <<"getState", "putState">>)
        ELSE Outcome(putState(st, id, BufferFrom(stringify(sortKeysRecursive(asset)))), "ok",
                     stringify(sortKeysRecursive(asset)), "none", << >>,
                     <<"getState", "putState">>)

CreateAsset(st, id, gameName, ownerName, ownerType, gameValue, failAt, absentAs) ==
    LET exists == AssetExists(st, id, failAt, absentAs)
        asset  == Obj(<<"id", "game_name", "owner_name", "owner_type", "game_value">>,
                      [id |-> Str(id), game_name |-> Str(gameName),
                       owner_name |-> Str(ownerName), owner_type |-> Str(ownerType),
                       game_value |-> gameValue])
    IN  IF exists.status # "ok" THEN exists
        ELSE IF Truthy(exists.exists)
        THEN Outcome(st, "AlreadyExists", NoText, "none", << >>, exists.calls)
        ELSE IF failAt = 2
        THEN Outcome(st, "StoreError", NoText, "none", << >>, Append(exists.calls, "putState"))
        ELSE Outcome(putState(st, id, BufferFrom(Encode(asset))), "ok",
                     JSON_stringify(asset), "none", << >>, Append(exists.calls, "putState"))

\* variant: the stored value is decoded and encoded again before it is returned
ReadAsset_Reencodes(st, id, failAt, absentAs) ==
    LET assetJSON == getState(st, id, absentAs)
    IN  IF failAt = 1
        THEN Outcome(st, "StoreError", NoText, "none", << >>, <<"getState">>)
        ELSE IF assetJSON = Undefined \/ TextLength(assetJSON.text) = 0
        THEN Outcome(st, "NotFound", NoText, "none", << >>, <<"getState">>)
        ELSE IF ~IsJSON(BufferToString(assetJSON))
        THEN Outcome(st, "SyntaxError", NoText, "none", << >>, <<"getState">>)
        ELSE Outcome(st, "ok", JSON_stringify(JSON_parse(BufferToString(assetJSON))),
                     "none", << >>, <<"getState">>)

ReadAsset(st, id, failAt, absentAs) ==
    LET assetJSON == getState(st, id, absentAs)
    IN  IF failAt = 1
        THEN Outcome(st, "StoreError", NoText, "none", << >>, <<"getState">>)
        ELSE IF assetJSON = Undefined \/ TextLength(assetJSON.text) = 0
        THEN Outcome(st, "NotFound", NoText, "none", << >>, <<"getState">>)
        ELSE Outcome(st, "ok", BufferToString(assetJSON), "none", << >>, <<"getState">>)

\* variant: the supplied fields are merged into the stored record
UpdateAsset_Merge(st, id, gameName, ownerName, ownerType, gameValue, failAt, absentAs) ==
    LET assetJSON == getState(st, id, absentAs)
    IN  IF failAt = 1
        THEN Outcome(st, "StoreError", NoText, "none", << >>, <<"getState">>)
        ELSE IF assetJSON = Undefined \/ TextLength(assetJSON.text) = 0
        THEN Outcome(st, "NotFound", NoText, "none", << >>, <<"getState">>)
        ELSE IF failAt = 2
        THEN Outcome(st, "StoreError", NoText, "none", << >>, <<"getState", "putState">>)
        ELSE LET merged ==
                     SetProp(SetProp(SetProp(SetProp(SetProp(
                         JSON_parse(BufferToString(assetJSON)),
                         "id", Str(id)), "game_name", Str(gameName)),
                         "owner_name", Str(ownerName)), "owner_type", Str(ownerType)),
                         "game_value", gameValue)
             IN  Outcome(putState(st, id, BufferFrom(stringify(sortKeysRecursive(merged)))),
                         "ok", NoText, "none", << >>, <<"getState", "putState">>)

UpdateAsset(st, id, gameName, ownerName, ownerType, gameValue, failAt, absentAs) ==
    LET exists == AssetExists(st, id, failAt, absentAs)
        updatedAsset == Obj(<<"id", "game_name", "owner_name", "owner_type", "game_value">>,
                            [id |-> Str(id), game_name |-> Str(gameName),
                             owner_name |-> Str(ownerName), owner_type |-> Str(ownerType),
                             game_value |-> gameValue])
    IN  IF exists.status # "ok" THEN exists
        ELSE IF ~Truthy(exists.exists)
        THEN Outcome(st, "NotFound", NoText, "none", << >>, exists.calls)
        ELSE IF failAt = 2
        THEN Outcome(st, "StoreError", NoText, "none", << >>, Append(exists.calls, "putState"))
        ELSE Outcome(putState(st, id, BufferFrom(Encode(updatedAsset))), "ok",
                     NoText, "none", << >>, Append(exists.calls, "putState"))

\* variant: a rejected deleteState is tried once more
DeleteAsset_Retries(st, id, failAt, absentAs) ==
    LET assetJSON == getState(st, id, absentAs)
    IN  IF failAt = 1
        THEN Outcome(st, "StoreError", NoText, "none", << >>, <<"getState">>)
        ELSE IF assetJSON = Undefined \/ TextLength(assetJSON.text) = 0
        THEN Outcome(st, "NotFound", NoText, "none", << >>, <<"getState">>)
        ELSE IF failAt = 2
        THEN Outcome(deleteState(st, id), "ok", NoText, "none", << >>,
                     <<"getState", "deleteState", "deleteState">>)
        ELSE Outcome(deleteState(st, id), "ok", NoText, "none", << >>,
                     <<"getState", "deleteState">>)

DeleteAsset(st, id, failAt, absentAs) ==
    LET exists == AssetExists(st, id, failAt, absentAs)
    IN  IF exists.status # "ok" THEN exists
        ELSE IF ~Truthy(exists.exists)
        THEN Outcome(st, "NotFound", NoText, "none", << >>, exists.calls)
        ELSE IF failAt = 2
        THEN Outcome(st, "StoreError", NoText, "none", << >>, Append(exists.calls, "deleteState"))
        ELSE Outcome(deleteState(st, id), "ok", NoText, "none", << >>,
                     Append(exists.calls, "deleteState"))

\* variant: the record is rebuilt from the five asset fields
TransferAsset_Rebuilds(st, id, newOwnerName, failAt, absentAs) ==
    LET assetJSON == getState(st, id, absentAs)
    IN  IF failAt = 1
        THEN Outcome(st, "StoreError", NoText, "none", << >>, <<"getState">>)
        ELSE IF assetJSON = Undefined \/ TextLength(assetJSON.text) = 0
        THEN Outcome(st, "NotFound", NoText, "none", << >>, <<"getState">>)
        ELSE IF failAt = 2
        THEN Outcome(st, "StoreError", NoText, "none", << >>, <<"getState", "putState">>)
        ELSE LET parsed == JSON_parse(BufferToString(assetJSON))
                 asset  == Obj(<<"id", "game_name", "owner_name", "owner_type", "game_value">>,
                               [id |-> parsed.val.id, game_name |-> parsed.val.game_name,
                                owner_name |-> Str(newOwnerName),
                                owner_type |-> parsed.val.owner_type,
                                game_value |-> parsed.val.game_value])
             IN  Outcome(putState(st, id, BufferFrom(stringify(sortKeysRecursive(asset)))),
                         "ok",
                         JSON_stringify(Obj(<<"oldOwnerName">>,
                                            [oldOwnerName |-> parsed.val.owner_name])),
                         "none", << >>, <<"getState", "putState">>)

\* variant: the owner is captured after it has been replaced
TransferAsset_CapturesLate(st, id, newOwnerName, failAt, absentAs) ==
    LET assetJSON == getState(st, id, absentAs)
    IN  IF failAt = 1
        THEN Outcome(st, "StoreError", NoText, "none", << >>, <<"getState">>)
        ELSE IF assetJSON = Undefined \/ TextLength(assetJSON.text) = 0
        THEN Outcome(st, "NotFound", NoText, "none", << >>, <<"getState">>)
        ELSE IF failAt = 2
        THEN Outcome(st, "StoreError", NoText, "none", << >>, <<"getState", "putState">>)
        ELSE LET asset == SetProp(JSON_parse(BufferToString(assetJSON)),
                                  "owner_name", Str(newOwnerName))
             IN  Outcome(putState(st, id, BufferFrom(stringify(sortKeysRecursive(asset)))),
                         "ok",
                         JSON_stringify(Obj(<<"oldOwnerName">>,
                                            [oldOwnerName |-> asset.val.owner_name])),
                         "none", << >>, <<"getState", "putState">>)

\* variant: the record also keeps the owner it is taken from
TransferAsset_KeepsHistory(st, id, newOwnerName, failAt, absentAs) ==
    LET read == ReadAsset(st, id, failAt, absentAs)
    IN  IF read.status # "ok" THEN read
        ELSE IF ~IsJSON(read.ret)
        THEN Outcome(st, "SyntaxError", NoText, "none", << >>, read.calls)
        ELSE LET parsed       == JSON_parse(read.ret)
                 oldOwnerName == parsed.val.owner_name
                 asset        == SetProp(SetProp(parsed, "owner_name", Str(newOwnerName)),
                                         "old_owner_name", oldOwnerName)
             IN  IF failAt = 2
                 THEN Outcome(st, "StoreError", NoText, "none", << >>,
                              Append(read.calls, "putState"))
                 ELSE Outcome(putState(st, id, BufferFrom(Encode(asset))), "ok",
                              JSON_stringify(Obj(<<"oldOwnerName">>,
                                                 [oldOwnerName |-> oldOwnerName])),
                              "none", << >>, Append(read.calls, "putState"))

TransferAsset(st, id, newOwnerName, failAt, absentAs) ==
    LET read == ReadAsset(st, id, failAt, absentAs)
    IN  IF read.status # "ok" THEN read
        ELSE IF ~IsJSON(read.ret)
        THEN Outcome(st, "SyntaxError", NoText, "none", << >>, read.calls)
        ELSE LET parsed       == JSON_parse(read.ret)
                 oldOwnerName == parsed.val.owner_name
                 asset        == SetProp(parsed, "owner_name", Str(newOwnerName))
             IN  IF failAt = 2
                 THEN Outcome(st, "StoreError", NoText, "none", << >>,
                              Append(read.calls, "putState"))
                 ELSE Outcome(putState(st, id, BufferFrom(Encode(asset))), "ok",
                              JSON_stringify(Obj(<<"oldOwnerName">>,
                                                 [oldOwnerName |-> oldOwnerName])),
                              "none", << >>, Append(read.calls, "putState"))

\* one element of allResults: the parsed record, or the raw string
ResultItem(buf) ==
    LET strValue == BufferToString(buf)
    IN  IF IsJSON(strValue) THEN JSON_stringify(JSON_parse(strValue))
        ELSE [kind |-> "string", members |-> << >>, raw |-> strValue.raw]

\* variant: no try/catch around JSON.parse, a value that is not JSON aborts
\* the call
GetAllAssets_NoCatch(st, failAt) ==
    LET results == getStateByRange(st)
        ncalls  == IF failAt = 0 THEN Len(results) + 2 ELSE failAt
        calls   == [i \in 1..ncalls |-> IF i = 1 THEN "getStateByRange" ELSE "next"]
    IN  IF failAt \in 1..(Len(results) + 2)
        THEN Outcome(st, "StoreError", NoText, "none", << >>, calls)
        ELSE IF \E i \in 1..Len(results) : ~IsJSON(BufferToString(results[i]))
        THEN Outcome(st, "SyntaxError", NoText, "none", << >>, calls)
        ELSE Outcome(st, "ok", NoText, "none",
                     [i \in 1..Len(results) |-> ResultItem(results[i])], calls)

\* store calls: 1 is getStateByRange, 2 .. n + 2 are the iterator's next()
GetAllAssets(st, failAt) ==
    LET results == getStateByRange(st)
        ncalls  == IF failAt = 0 THEN Len(results) + 2 ELSE failAt
        calls   == [i \in 1..ncalls |-> IF i = 1 THEN "getStateByRange" ELSE "next"]
    IN  IF failAt \in 1..(Len(results) + 2)
        THEN Outcome(st, "StoreError", NoText, "none", << >>, calls)
        ELSE Outcome(st, "ok", NoText, "none",
                     [i \in 1..Len(results) |-> ResultItem(results[i])], calls)

(* ------------------------------ actions ------------------------------- *)

\* the invocation just completed: handler, arguments, the store call made to
\* fail, its outcome, and what it found and changed in the world state (prev:
\* the value under id when it started; changed: the keys whose entry differs
\* when it ended; replaced: those of them that had an entry and still have one)
Invocation(op, id, args, failAt, st, out) ==
    [op |-> op, id |-> id, args |-> args, failAt |-> failAt, status |-> out.status,
     ret |-> out.ret, exists |-> out.exists, list |-> out.list, calls |-> out.calls,
     prev |-> IF id \in Keys THEN st[id] ELSE Undefined,
     changed |-> {k \in Keys : out.store[k] # st[k]},
     replaced |-> {k \in Keys : /\ out.store[k] # st[k]
                                /\ st[k] # Undefined
                                /\ out.store[k] # Undefined}]

Complete(op, id, args, failAt, out) ==
    /\ store' = out.store
    /\ last' = Invocation(op, id, args, failAt, store, out)

\* the possible answers of getState for id when it has no entry (the choice
\* is immaterial when it has one)
AbsentAs(st, id) == IF st[id] = Undefined THEN AbsentResults ELSE {Undefined}

Init ==
    /\ store = [k \in Keys |-> Undefined]
    /\ last = Invocation("none", "", << >>, 0, store,
                         Outcome(store, "ok", NoText, "none", << >>, << >>))

DoInitLedger ==
    \E failAt \in 0..Len(assets) :
        Complete("InitLedger", "", << >>, failAt, InitLedger(store, failAt))

DoCreateAsset ==
    \E id \in ArgIds : \E gameName \in GameNames, ownerName \in Owners,
       ownerType \in OwnerTypes, gameValue \in GameValues,
       failAt \in 0..2, absentAs \in AbsentAs(store, id) :
        Complete("CreateAsset", id,
                 <<Str(gameName), Str(ownerName), Str(ownerType), gameValue>>, failAt,
                 CreateAsset(store, id, gameName, ownerName, ownerType, gameValue,
                             failAt, absentAs))

DoReadAsset ==
    \E id \in ArgIds : \E failAt \in 0..1, absentAs \in AbsentAs(store, id) :
        Complete("ReadAsset", id, << >>, failAt, ReadAsset(store, id, failAt, absentAs))

DoUpdateAsset ==
    \E id \in ArgIds : \E gameName \in GameNames, ownerName \in Owners,
       ownerType \in OwnerTypes, gameValue \in GameValues,
       failAt \in 0..2, absentAs \in AbsentAs(store, id) :
        Complete("UpdateAsset", id,
                 <<Str(gameName), Str(ownerName), Str(ownerType), gameValue>>, failAt,
                 UpdateAsset(store, id, gameName, ownerName, ownerType, gameValue,
                             failAt, absentAs))

DoDeleteAsset ==
    \E id \in ArgIds : \E failAt \in 0..2, absentAs \in AbsentAs(store, id) :
        Complete("DeleteAsset", id, << >>, failAt,
                 DeleteAsset(store, id, failAt, absentAs))

DoAssetExists ==
    \E id \in ArgIds : \E failAt \in 0..1, absentAs \in AbsentAs(store, id) :
        Complete("AssetExists", id, << >>, failAt,
                 AssetExists(store, id, failAt, absentAs))

DoTransferAsset ==
    \E id \in ArgIds : \E newOwnerName \in Owners, failAt \in 0..2,
       absentAs \in AbsentAs(store, id) :
        Complete("TransferAsset", id, <<Str(newOwnerName)>>, failAt,
                 TransferAsset(store, id, newOwnerName, failAt, absentAs))

DoGetAllAssets ==
    \E failAt \in 0..(Len(getStateByRange(store)) + 2) :
        Complete("GetAllAssets", "", << >>, failAt, GetAllAssets(store, failAt))

Next ==
    \/ DoInitLedger
    \/ DoCreateAsset
    \/ DoReadAsset
    \/ DoUpdateAsset
    \/ DoDeleteAsset
    \/ DoAssetExists
    \/ DoTransferAsset
    \/ DoGetAllAssets

Spec == Init /\ [][Next]_vars

(* ---------------- a store that keeps a value of its own --------------- *)

\* the putState of the 'non JSON value' test: whatever is written, the entry
\* becomes the string 'non-json-value'
putStateCorrupting(st, key, value) ==
    [st EXCEPT ![key] = BufferFrom(RawText("non-json-value"))]

\* CreateAsset run against that putState
CreateAssetCorrupted(st, id, gameName, ownerName, ownerType, gameValue, failAt, absentAs) ==
    LET out == CreateAsset(st, id, gameName, ownerName, ownerType, gameValue,
                           failAt, absentAs)
    IN  IF out.status = "ok"
        THEN [out EXCEPT !.store = putStateCorrupting(st, id, out.store[id])]
        ELSE out

DoCreateAssetCorrupted ==
    \E id \in ArgIds : \E gameName \in GameNames, ownerName \in Owners,
       ownerType \in OwnerTypes, gameValue \in GameValues,
       absentAs \in AbsentAs(store, id) :
        Complete("CreateAssetCorrupted", id,
                 <<Str(gameName), Str(ownerName), Str(ownerType), gameValue>>, 0,
                 CreateAssetCorrupted(store, id, gameName, ownerName, ownerType,
                                      gameValue, 0, absentAs))

NextCorrupting == Next \/ DoCreateAssetCorrupted

\* the handlers over a store in which an entry may be a value that is not JSON
SpecCorrupting == Init /\ [][NextCorrupting]_vars

(* ------- a second execution that builds its records in another order ------ *)

\* field orders in which an execution may build the asset object: the order of
\* the literals in the handlers, sorted, and the literals' order reversed
FieldOrders ==
    { <<"id", "game_name", "owner_name", "owner_type", "game_value">>,
      <<"game_name", "game_value", "id", "owner_name", "owner_type">>,
      <<"game_value", "owner_type", "owner_name", "game_name", "id">> }

\* InitLedger's loop with the seed literals' fields set in the given order
RECURSIVE InitLedgerBuiltFrom(_, _, _, _, _)
InitLedgerBuiltFrom(order, st, i, failAt, calls) ==
    IF i > Len(assets) THEN Outcome(st, "ok", NoText, "none", << >>, calls)
    ELSE IF failAt = i
         THEN Outcome(st, "StoreError", NoText, "none", << >>, Append(calls, "putState"))
         ELSE LET asset == SetProp(Obj(order, assets[i].val), "docType", Str("asset"))
              IN  InitLedgerBuiltFrom(order,
                      putState(st, asset.val.id.s, BufferFrom(Encode(asset))),
                      i + 1, failAt, Append(calls, "putState"))

\* CreateAsset with the asset literal's fields set in the given order
CreateAssetBuilt(order, st, id, gameName, ownerName, ownerType, gameValue, failAt, absentAs) ==
    LET exists == AssetExists(st, id, failAt, absentAs)
        asset  == Obj(order,
                      [id |-> Str(id), game_name |-> Str(gameName),
                       owner_name |-> Str(ownerName), owner_type |-> Str(ownerType),
                       game_value |-> gameValue])
    IN  IF exists.status # "ok" THEN exists
        ELSE IF Truthy(exists.exists)
        THEN Outcome(st, "AlreadyExists", NoText, "none", << >>, exists.calls)
        ELSE IF failAt = 2
        THEN Outcome(st, "StoreError", NoText, "none", << >>, Append(exists.calls, "putState"))
        ELSE Outcome(putState(st, id, BufferFrom(Encode(asset))), "ok",
                     JSON_stringify(asset), "none", << >>, Append(exists.calls, "putState"))

\* UpdateAsset with the updatedAsset literal's fields set in the given order
UpdateAssetBuilt(order, st, id, gameName, ownerName, ownerType, gameValue, failAt, absentAs) ==
    LET exists == AssetExists(st, id, failAt, absentAs)
        updatedAsset == Obj(order,
                            [id |-> Str(id), game_name |-> Str(gameName),
                             owner_name |-> Str(ownerName), owner_type |-> Str(ownerType),
                             game_value |-> gameValue])
    IN  IF exists.status # "ok" THEN exists
        ELSE IF ~Truthy(exists.exists)
        THEN Outcome(st, "NotFound", NoText, "none", << >>, exists.calls)
        ELSE IF failAt = 2
        THEN Outcome(st, "StoreError", NoText, "none", << >>, Append(exists.calls, "putState"))
        ELSE Outcome(putState(st, id, BufferFrom(Encode(updatedAsset))), "ok",
                     NoText, "none", << >>, Append(exists.calls, "putState"))

\* one invocation run by two executions from the same store: this one (out)
\* and one that builds its records in the given field order (twin)
TwinInvocation(op, id, args, order, out, twin) ==
    [op |-> op, id |-> id, args |-> args, order |-> order,
     status |-> out.status, ret |-> out.ret,
     twinStatus |-> twin.status, twinRet |-> twin.ret, twinStore |-> twin.store]

TwinComplete(op, id, args, order, out, twin) ==
    /\ store' = out.store
    /\ last' = TwinInvocation(op, id, args, order, out, twin)

LiteralOrder == <<"id", "game_name", "owner_name", "owner_type", "game_value">>

TwinInit ==
    /\ store = [k \in Keys |-> Undefined]
    /\ last = TwinInvocation("none", "", << >>, LiteralOrder,
                             Outcome(store, "ok", NoText, "none", << >>, << >>),
                             Outcome(store, "ok", NoText, "none", << >>, << >>))

TwinInitLedger ==
    \E order \in FieldOrders, failAt \in {0, 3} :
        TwinComplete("InitLedger", "", << >>, order, InitLedger(store, failAt),
                     InitLedgerBuiltFrom(order, store, 1, failAt, << >>))

TwinCreateAsset ==
    \E id \in ArgIds : \E order \in FieldOrders, gameName \in GameNames,
       ownerName \in Owners, ownerType \in OwnerTypes, gameValue \in GameValues,
       absentAs \in AbsentAs(store, id) :
        TwinComplete("CreateAsset", id,
                     <<Str(gameName), Str(ownerName), Str(ownerType), gameValue>>, order,
                     CreateAsset(store, id, gameName, ownerName, ownerType, gameValue,
                                 0, absentAs),
                     CreateAssetBuilt(order, store, id, gameName, ownerName, ownerType,
                                      gameValue, 0, absentAs))

TwinUpdateAsset ==
    \E id \in ArgIds : \E order \in FieldOrders, gameName \in GameNames,
       ownerName \in Owners, ownerType \in OwnerTypes, gameValue \in GameValues,
       absentAs \in AbsentAs(store, id) :
        TwinComplete("UpdateAsset", id,
                     <<Str(gameName), Str(ownerName), Str(ownerType), gameValue>>, order,
                     UpdateAsset(store, id, gameName, ownerName, ownerType, gameValue,
                                 0, absentAs),
                     UpdateAssetBuilt(order, store, id, gameName, ownerName, ownerType,
                                      gameValue, 0, absentAs))

\* TransferAsset and DeleteAsset build no record from a literal: the second
\* execution runs the very same steps on the same store
TwinTransferAsset ==
    \E id \in ArgIds : \E newOwnerName \in Owners, absentAs \in AbsentAs(store, id) :
        TwinComplete("TransferAsset", id, <<Str(newOwnerName)>>, LiteralOrder,
                     TransferAsset(store, id, newOwnerName, 0, absentAs),
                     TransferAsset(store, id, newOwnerName, 0, absentAs))

TwinDeleteAsset ==
    \E id \in ArgIds : \E absentAs \in AbsentAs(store, id) :
        TwinComplete("DeleteAsset", id, << >>, LiteralOrder,
                     DeleteAsset(store, id, 0, absentAs),
                     DeleteAsset(store, id, 0, absentAs))

TwinNext ==
    \/ TwinInitLedger
    \/ TwinCreateAsset
    \/ TwinUpdateAsset
    \/ TwinTransferAsset
    \/ TwinDeleteAsset

SpecTwin == TwinInit /\ [][TwinNext]_vars

(* ------ two CreateAsset invocations in flight, store calls interleaved ----- *)

\* the invocations in flight
Procs == {1, 2}

\* an invocation of CreateAsset that has made no store call yet
InFlight(gameName, ownerName, ownerType, gameValue) ==
    [args |-> <<gameName, ownerName, ownerType, gameValue>>,
     pc |-> "start", status |-> "none", ret |-> NoText]

\* no invocation is between its first store call and its return
Idle == \A p \in DOMAIN last.flight : last.flight[p].pc = "done"

RaceInit ==
    /\ store = [k \in Keys |-> Undefined]
    /\ last = [op |-> "none", id |-> "", flight |-> << >>, startedAbsent |-> FALSE]

RaceInitLedger ==
    /\ Idle
    /\ store' = InitLedger(store, 0).store
    /\ UNCHANGED last

\* two clients submit CreateAsset for the same id
RaceBegin ==
    /\ Idle
    /\ \E id \in ArgIds, gameName \in GameNames, owner1 \in Owners, owner2 \in Owners,
          ownerType \in OwnerTypes, gameValue \in GameValues :
           last' = [op |-> "CreateAsset", id |-> id,
                    flight |-> <<InFlight(gameName, owner1, ownerType, gameValue),
                                 InFlight(gameName, owner2, ownerType, gameValue)>>,
                    startedAbsent |-> store[id] = Undefined]
    /\ UNCHANGED store

\* the await of AssetExists resolves for one invocation, whose check of
\* exists follows without another store call
RaceGetState ==
    \E p \in Procs :
        /\ last.op = "CreateAsset"
        /\ last.flight[p].pc = "start"
        /\ \E absentAs \in AbsentAs(store, last.id) :
               LET exists == AssetExists(store, last.id, 0, absentAs)
               IN  last' = [last EXCEPT !.flight[p] =
                               IF Truthy(exists.exists)
                               THEN [@ EXCEPT !.pc = "done", !.status = "AlreadyExists"]
                               ELSE [@ EXCEPT !.pc = "checked"]]
        /\ UNCHANGED store

\* the putState of one invocation that has passed its check, and its return
RacePutState ==
    \E p \in Procs :
        /\ last.op = "CreateAsset"
        /\ last.flight[p].pc = "checked"
        /\ LET a     == last.flight[p].args
               asset == Obj(<<"id", "game_name", "owner_name", "owner_type", "game_value">>,
                            [id |-> Str(last.id), game_name |-> Str(a[1]),
                             owner_name |-> Str(a[2]), owner_type |-> Str(a[3]),
                             game_value |-> a[4]])
           IN  /\ store' = putState(store, last.id, BufferFrom(Encode(asset)))
               /\ last' = [last EXCEPT !.flight[p] =
                              [@ EXCEPT !.pc = "done", !.status = "ok",
                                        !.ret = JSON_stringify(asset)]]

RaceNext ==
    \/ RaceInitLedger
    \/ RaceBegin
    \/ RaceGetState
    \/ RacePutState

SpecRace == RaceInit /\ [][RaceNext]_vars

(* ------------------------- shared vocabulary -------------------------- *)

\* a non-empty value is stored under id
Present(st, id) == st[id] # Undefined /\ TextLength(st[id].text) > 0

\* the record stored under id
RecordAt(st, id) == JSON_parse(BufferToString(st[id]))

Succeeded(inv, op) == inv.op = op /\ inv.status = "ok"

AssetFields == {"id", "game_name", "owner_name", "owner_type", "game_value"}

\* the i-th seed record as InitLedger writes it
SeedRecord(i) ==
    [k \in AssetFields \cup {"docType"} |->
        IF k = "docType" THEN Str("asset") ELSE assets[i].val[k]]

(* ------------------------------- claims ------------------------------- *)

\* C1: CreateAsset invoked while a non-empty value is stored under id fails,
\* with AlreadyExists unless the existence check's getState itself was
\* rejected, makes no write and leaves the whole store as it was; so a second
\* CreateAsset with the same id fails.
C1_CreateOnPresentFails ==
    [][ (last'.op = "CreateAsset" /\ Present(store, last'.id)) =>
            /\ store' = store
            /\ last'.calls = <<"getState">>
            /\ last'.status = (IF last'.failAt = 1 THEN "StoreError" ELSE "AlreadyExists")
      ]_vars

\* a CreateAsset was refused for a present id whose record has another owner
\* than the one supplied
C1_Witness ==
    /\ last.op = "CreateAsset"
    /\ last.status = "AlreadyExists"
    /\ Present(store, last.id)
    /\ store[last.id] = last.prev
    /\ RecordAt(store, last.id).val.owner_name # last.args[2]

\* C2: on an id that is absent from the store, ReadAsset, UpdateAsset,
\* DeleteAsset and TransferAsset fail with NotFound (with the store's error
\* when the getState itself was rejected), make no putState or deleteState
\* call and leave the store unchanged.
C2_AbsentIsNotFound ==
    [][ ( /\ last'.op \in {"ReadAsset", "UpdateAsset", "DeleteAsset", "TransferAsset"}
          /\ ~Present(store, last'.id) ) =>
            /\ store' = store
            /\ last'.calls = <<"getState">>
            /\ last'.status = (IF last'.failAt = 1 THEN "StoreError" ELSE "NotFound")
      ]_vars

\* a TransferAsset ended with NotFound on an absent id while other records
\* exist
C2_Witness ==
    /\ last.op = "TransferAsset"
    /\ last.status = "NotFound"
    /\ ~Present(store, last.id)
    /\ \E k \in Keys : Present(store, k)

\* C3: a successful CreateAsset(id) leaves id present and an AssetExists(id)
\* that follows it returns true; a successful DeleteAsset(id) leaves id absent
\* and an AssetExists(id) that follows it returns false; an absent id becomes
\* present only through CreateAsset or InitLedger.
C3_ExistsFollowsCreateAndDelete ==
    [][ /\ Succeeded(last', "CreateAsset") => Present(store', last'.id)
        /\ Succeeded(last', "DeleteAsset") => ~Present(store', last'.id)
        /\ (Succeeded(last', "AssetExists") /\ last.id = last'.id
              /\ Succeeded(last, "CreateAsset")) => last'.exists = "true"
        /\ (Succeeded(last', "AssetExists") /\ last.id = last'.id
              /\ Succeeded(last, "DeleteAsset")) => last'.exists = "false"
        /\ \A k \in Keys : (~Present(store, k) /\ Present(store', k)) =>
              last'.op \in {"CreateAsset", "InitLedger"}
      ]_vars

C5_ReturnsOldOwnerSnakeCase ==
    Succeeded(last, "TransferAsset") =>
        last.ret = JSON_stringify(Obj(<<"old_owner_name">>,
            [old_owner_name |-> JSON_parse(BufferToString(last.prev)).val.owner_name]))

\* C5 amended: a successful TransferAsset returns a value whose single field
\* is named oldOwnerName and holds the owner_name the record had immediately
\* before the transfer; it is not the full record.
C5_ReturnsOldOwnerName ==
    Succeeded(last, "TransferAsset") =>
        /\ Len(last.ret.members) = 1
        /\ last.ret.members[1].key = "oldOwnerName"
        /\ Value(last.ret.members[1].lit)
             = JSON_parse(BufferToString(last.prev)).val.owner_name
        /\ last.ret # BufferToString(store[last.id])

\* asset1 owned by Robert was transferred to Paul
C5_Witness ==
    /\ Succeeded(last, "TransferAsset")
    /\ last.id = "asset1"
    /\ last.args = <<Str("Paul")>>
    /\ JSON_parse(BufferToString(last.prev)).val.owner_name = Str("Robert")

C7_StoredValuesCanonical ==
    \A k \in Keys :
        store[k] # Undefined =>
            LET text == BufferToString(store[k])
            IN  /\ IsJSON(text)
                /\ Len(text.members) > 0
                /\ \A i \in 1..(Len(text.members) - 1) :
                       LexLess(CodeUnits(text.members[i].key),
                               CodeUnits(text.members[i + 1].key))

\* the store holds a six-field record last written by TransferAsset next to a
\* five-field record written by CreateAsset or UpdateAsset
C7_Witness ==
    /\ Succeeded(last, "TransferAsset")
    /\ Len(BufferToString(store[last.id]).members) = 6
    /\ \E k \in Keys : store[k] # Undefined /\ Len(BufferToString(store[k]).members) = 5

\* C8 as stated: a successful CreateAsset returns the very text it stored
\* under id (keys in ascending order).
C8_CreateReturnsStoredText ==
    Succeeded(last, "CreateAsset") => last.ret = BufferToString(store[last.id])

\* C8 amended: a successful CreateAsset returns the created record encoded in
\* field-insertion order (id, game_name, owner_name, owner_type, game_value);
\* the returned text decodes to the same fields and values as the text stored
\* under id.
C8_CreateReturnsInsertionOrder ==
    Succeeded(last, "CreateAsset") =>
        /\ [i \in 1..Len(last.ret.members) |-> last.ret.members[i].key]
             = <<"id", "game_name", "owner_name", "owner_type", "game_value">>
        /\ JSON_parse(last.ret).val = RecordAt(store, last.id).val
        /\ JSON_parse(last.ret).val.id = Str(last.id)
        /\ JSON_parse(last.ret).val.owner_name = last.args[2]

\* a CreateAsset succeeded on an id that had no entry
C8_Witness ==
    /\ Succeeded(last, "CreateAsset")
    /\ last.prev = Undefined
    /\ last.changed = {last.id}
    /\ IsJSON(last.ret)

\* C9 as stated: the value of a present key is replaced only by UpdateAsset or
\* TransferAsset (and removed only by DeleteAsset); an absent key becomes
\* present only through CreateAsset or InitLedger.
C9_PresentReplacedOnlyByUpdateTransfer ==
    [][ \A k \in Keys :
          store'[k] # store[k] =>
            IF Present(store, k)
            THEN IF Present(store', k)
                 THEN last'.op \in {"UpdateAsset", "TransferAsset"}
                 ELSE last'.op = "DeleteAsset"
            ELSE last'.op \in {"CreateAsset", "InitLedger"}
      ]_vars

\* C9 amended: the value of a present key is replaced only by UpdateAsset or
\* TransferAsset on that key, or by InitLedger, which overwrites the seed keys
\* asset1..asset6 whether present or not; CreateAsset, ReadAsset, AssetExists
\* and GetAllAssets never change the record of a present key; a present key
\* becomes absent only through DeleteAsset, an absent one present only through
\* CreateAsset or InitLedger.
C9_PresentReplacedOnlyByUpdateTransferInit ==
    [][ \A k \in Keys :
          store'[k] # store[k] =>
            IF Present(store, k)
            THEN IF Present(store', k)
                 THEN \/ last'.op \in {"UpdateAsset", "TransferAsset"} /\ last'.id = k
                      \/ last'.op = "InitLedger" /\ k \in SeedIds
                 ELSE last'.op = "DeleteAsset" /\ last'.id = k
            ELSE \/ last'.op = "CreateAsset" /\ last'.id = k
                 \/ last'.op = "InitLedger" /\ k \in SeedIds
      ]_vars

\* InitLedger replaced the record of a seed key that was present with another
\* owner
C9_Witness ==
    /\ Succeeded(last, "InitLedger")
    /\ \E k \in last.replaced : RecordAt(store, k).val.owner_name.s \notin Owners

\* C10: InitLedger writes the seed records in the order asset1..asset6; when
\* the k-th write is rejected it fails with the store's error after k
\* putState calls, the k-1 records before it are in the store, and every
\* other entry is as it was.
C10_InitLedgerPartialWrites ==
    [][ last'.op = "InitLedger" =>
          LET k == last'.failAt
              n == IF k = 0 THEN Len(assets) ELSE k - 1
          IN  /\ last'.status = (IF k = 0 THEN "ok" ELSE "StoreError")
              /\ last'.calls = [i \in 1..(IF k = 0 THEN Len(assets) ELSE k) |-> "putState"]
              /\ \A i \in 1..Len(assets) :
                    LET key == assets[i].val.id.s
                    IN  IF i <= n
                        THEN /\ Present(store', key)
                             /\ RecordAt(store', key).val = SeedRecord(i)
                        ELSE store'[key] = store[key]
              /\ \A key \in Keys \ SeedIds : store'[key] = store[key]
      ]_vars

\* InitLedger failed at its third write on an empty ledger: asset1 and asset2
\* are in the store, asset3..asset6 are not
C10_Witness ==
    /\ last.op = "InitLedger"
    /\ last.status = "StoreError"
    /\ last.failAt = 3
    /\ last.changed = {"asset1", "asset2"}
    /\ \A i \in 3..Len(assets) : store[assets[i].val.id.s] = Undefined

PresentKeys(st) == SelectSeq(ScanOrder, LAMBDA k : Present(st, k))

C13_AssetExistsReturnsBoolean ==
    (last.op = "AssetExists" /\ last.failAt = 0) =>
        /\ last.status = "ok"
        /\ last.exists = (IF Present(store, last.id) THEN "true" ELSE "false")

C15_StoreErrorsPropagate ==
    /\ last.status = "ok" => last.failAt = 0
    /\ last.status = "StoreError" =>
          /\ last.failAt >= 1
          /\ Len(last.calls) = last.failAt
          /\ IF last.op = "InitLedger"
             THEN last.changed \subseteq {assets[i].val.id.s : i \in 1..(last.failAt - 1)}
             ELSE last.changed = {}
    /\ last.status \in {"AlreadyExists", "NotFound"} =>
          /\ last.changed = {}
          /\ last.failAt = 0 \/ Len(last.calls) < last.failAt
    /\ last.status \in {"ok", "StoreError", "AlreadyExists", "NotFound"}
    /\ (last.op = "CreateAsset" /\ last.failAt = 2 /\ last.status # "AlreadyExists") =>
          /\ last.status = "StoreError"
          /\ store[last.id] = Undefined

\* a CreateAsset whose putState was rejected: the key is still absent
C15_Witness ==
    /\ last.op = "CreateAsset"
    /\ last.status = "StoreError"
    /\ last.calls = <<"getState", "putState">>
    /\ store[last.id] = Undefined
    /\ \E k \in Keys : Present(store, k)

C17_TransferIdempotent ==
    /\ \A k \in Keys :
           Present(store, k) =>
               /\ Encode(RecordAt(store, k)) = BufferToString(store[k])
               /\ Encode(JSON_parse(Encode(RecordAt(store, k))))
                    = Encode(RecordAt(store, k))
    /\ Succeeded(last, "TransferAsset") =>
           /\ (JSON_parse(BufferToString(last.prev)).val.owner_name = last.args[1]) =>
                  /\ store[last.id] = last.prev
                  /\ last.changed = {}
           /\ TransferAsset(store, last.id, last.args[1].s, 0, Undefined).status = "ok"
           /\ TransferAsset(store, last.id, last.args[1].s, 0, Undefined).store = store

\* a seed record has been transferred to the owner it already had
C17_Witness ==
    /\ Succeeded(last, "TransferAsset")
    /\ JSON_parse(BufferToString(last.prev)).val.owner_name = last.args[1]
    /\ "docType" \in DOMAIN RecordAt(store, last.id).val
    /\ store[last.id] = last.prev

\* C18: CreateAsset, UpdateAsset, DeleteAsset and TransferAsset called with id
\* change at most the store entry under id; ReadAsset, AssetExists and
\* GetAllAssets leave the whole store unchanged, whether they succeed or fail.
C18_Frame ==
    [][ /\ last'.op \in {"CreateAsset", "UpdateAsset", "DeleteAsset", "TransferAsset"} =>
              \A k \in Keys \ {last'.id} : store'[k] = store[k]
        /\ last'.op \in {"ReadAsset", "AssetExists", "GetAllAssets"} =>
              store' = store ]_vars

\* a DeleteAsset has removed one entry of a store that holds others
C18_Witness ==
    /\ Succeeded(last, "DeleteAsset")
    /\ last.changed = {last.id}
    /\ store[last.id] = Undefined
    /\ \E k \in Keys \ {last.id} : Present(store, k)

\* C19: in every store reached from the empty store through the handlers, the
\* id field of each stored record equals the key it is stored under.
C19_IdFieldEqualsKey ==
    \A k \in Keys : Present(store, k) => RecordAt(store, k).val.id = Str(k)

\* seed records and a created record are stored, one of them rewritten by
\* UpdateAsset
C19_Witness ==
    /\ Succeeded(last, "UpdateAsset")
    /\ Present(store, "asset7")
    /\ Present(store, "asset2")
    /\ RecordAt(store, last.id).val.id = Str(last.id)
    /\ RecordAt(store, "asset7").val.id = Str("asset7")

\* C20: when two CreateAsset invocations for the same absent id have run with
\* their getState and putState calls interleaved, one of them has succeeded
\* and the other has failed with AlreadyExists, and the record under id is
\* the one built by the invocation that succeeded.
C20_AtMostOneCreateSucceeds ==
    (last.op = "CreateAsset" /\ last.startedAbsent /\ Idle) =>
        \E p \in Procs :
            LET q == 3 - p
                a == last.flight[p].args
            IN  /\ last.flight[p].status = "ok"
                /\ last.flight[q].status = "AlreadyExists"
                /\ RecordAt(store, last.id).val =
                       [id |-> Str(last.id), game_name |-> Str(a[1]),
                        owner_name |-> Str(a[2]), owner_type |-> Str(a[3]),
                        game_value |-> a[4]]

====
